---- MODULE Spec2Model ----
(***************************************************************************)
(* Model of server/main.py of the weight tracker: the magic-link           *)
(* authentication engine (request_magic_link, verify_magic_link,           *)
(* create_access_token, verify_token, get_current_user, get_me) and the    *)
(* weight service (add_weight, get_weights, delete_weight) over the three  *)
(* tables users, magic_link_tokens and weights.                            *)
(*                                                                         *)
(* Time is counted in minutes.  The two handlers of the authentication     *)
(* flow that read and then write the store are modelled step by step, one  *)
(* action per store access or clock read, so that concurrent requests      *)
(* interleave the way the threadpool of the server lets them.  The         *)
(* handlers of the weight service are one action each.                     *)
(***************************************************************************)
EXTENDS Integers, Sequences, FiniteSets, TLC

\* ------------------------------------------------------------------ bounds
Slack        == 1   \* minutes the clock runs on past the last expiry
MaxTokens    == 1   \* rows of magic_link_tokens, requests interleaved
MaxSeqTokens == 2   \* rows of magic_link_tokens, requests one after the other
MaxEntries   == 2   \* rows of weights
MaxRaceTokens == 2  \* rows of magic_link_tokens, link requests interleaved

\* ------------------------------------------------------- program constants
SECRET_KEY == "your-secret-key-change-in-production"
ALGORITHM  == "HS256"
ACCESS_TOKEN_EXPIRE_DAYS  == 7
MAGIC_LINK_EXPIRE_MINUTES == 15

\* timedelta(days=ACCESS_TOKEN_EXPIRE_DAYS), in minutes
AccessTokenLifetime == ACCESS_TOKEN_EXPIRE_DAYS * 24 * 60
\* timedelta(minutes=MAGIC_LINK_EXPIRE_MINUTES), in minutes
MagicLinkLifetime == MAGIC_LINK_EXPIRE_MINUTES

\* ------------------------------------------------------------------ inputs
\* Strings are tuples of one-character strings.
RawEmails == { <<"a", "@", "x">>, <<" ", "A", "@", "X", " ">>, <<"b", "@", "x">> }
\* How far the clock may jump in one step: to the minute something issued
\* now expires in, or to the minute after.
LinkTickSteps == {MagicLinkLifetime, MagicLinkLifetime + 1}
\* Where the clock stops: two magic links, or one access token, issued one
\* at the expiry of the other, have expired.
SessionTickSteps == {AccessTokenLifetime, AccessTokenLifetime + 1}
LinkHorizon == 2 * MagicLinkLifetime + Slack
SessionHorizon == AccessTokenLifetime + Slack
\* The request slots: two requests can be in flight at once.
Procs == {1, 2}
\* A signing key that is not the server's.
OtherKey == "not-the-secret-key"

VARIABLES
  now,       \* datetime.datetime.utcnow(), in minutes
  users,     \* table users: row i has id i
  tokens,    \* table magic_link_tokens: row i has id i
  weights,   \* table weights: a set of rows
  req,       \* per request slot: the request in flight, with its locals
  out,       \* the last response sent, with the request it answers
  sessions,  \* history: per magic_link_tokens row, the access tokens issued
             \* from it (jwt) and when (at)
  linkFor    \* history: per magic_link_tokens row, the email as it was
             \* requested and when (at)

vars == <<now, users, tokens, weights, req, out, sessions, linkFor>>

\* ------------------------------------------------------------ str helpers
LowerChar(c) ==
  CASE c = "A" -> "a"
    [] c = "B" -> "b"
    [] c = "X" -> "x"
    [] OTHER -> c

\* str.lower()
Lower(s) == [i \in 1..Len(s) |-> LowerChar(s[i])]

IsSpace(c) == c = " "

RECURSIVE LStrip(_)
LStrip(s) == IF s # <<>> /\ IsSpace(Head(s)) THEN LStrip(Tail(s)) ELSE s

RECURSIVE RStrip(_)
RStrip(s) ==
  IF s # <<>> /\ IsSpace(s[Len(s)]) THEN RStrip(SubSeq(s, 1, Len(s) - 1)) ELSE s

\* str.strip()
Strip(s) == RStrip(LStrip(s))

\* request.email.lower().strip()
NormalizeEmail(raw) == Strip(Lower(raw))

DigitChars == <<"0", "1", "2", "3", "4", "5", "6", "7", "8", "9">>

RECURSIVE IntToStr(_)
\* str(n) for n >= 0
IntToStr(n) ==
  IF n < 10 THEN <<DigitChars[n + 1]>>
  ELSE IntToStr(n \div 10) \o <<DigitChars[(n % 10) + 1]>>

DigitValue(c) == CHOOSE d \in 0..9 : DigitChars[d + 1] = c

RECURSIVE StrToInt(_)
\* int(s) for a string of decimal digits
StrToInt(s) ==
  IF Len(s) = 1 THEN DigitValue(s[1])
  ELSE 10 * StrToInt(SubSeq(s, 1, Len(s) - 1)) + DigitValue(s[Len(s)])

\* ------------------------------------------------------------------ tables
\* Column created_at of users is left out: no handler reads it back except
\* to echo it.
UserIds == 1..Len(users)
TokenIds == 1..Len(tokens)

\* db.query(User).filter(User.email == email).first(): the id, or 0 for None
UserByEmail(email) ==
  IF \E i \in UserIds : users[i].email = email
  THEN CHOOSE i \in UserIds : users[i].email = email
  ELSE 0

\* The query without its filter
UserByIdFirst(id) == IF UserIds # {} THEN 1 ELSE 0

\* db.query(User).filter(User.id == id).first(): the id, or 0 for None
UserById(id) == IF id \in UserIds THEN id ELSE 0

\* str(uuid.uuid4()): a value no earlier call returned
Uuid4 == Len(tokens) + 1

\* The token strings a client may send: every one issued, and one never issued.
TokenStrings == 1..(Len(tokens) + 1)

\* The query without its filter on used
UnusedTokenRowAnyUse(tok) ==
  IF \E i \in TokenIds : tokens[i].token = tok
  THEN CHOOSE i \in TokenIds : tokens[i].token = tok
  ELSE 0

\* db.query(MagicLinkToken).filter(token == tok, used == False).first():
\* the row id, or 0 for None
UnusedTokenRow(tok) ==
  IF \E i \in TokenIds : tokens[i].token = tok /\ tokens[i].used = FALSE
  THEN CHOOSE i \in TokenIds : tokens[i].token = tok /\ tokens[i].used = FALSE
  ELSE 0

\* ------------------------------------------------------- access tokens
NoJwt == [sub |-> <<>>, email |-> <<>>, exp |-> 0, sig |-> <<>>]

\* The HS256 signature of a payload under a key, as an ideal MAC: it names
\* the key and the payload it was computed from.
HS256(key, sub, email, exp) == <<key, sub, email, exp>>

\* jwt.encode(to_encode, key, algorithm=ALGORITHM)
JwtEncode(sub, email, exp, key) ==
  [sub |-> sub, email |-> email, exp |-> exp, sig |-> HS256(key, sub, email, exp)]

create_access_token(user_id, email) ==
  JwtEncode(IntToStr(user_id), email, now + AccessTokenLifetime, SECRET_KEY)

\* The decoding without the check of the signature
JwtDecodesUnverified(token, key) == ~(token.exp < now)

\* jwt.decode(token, key, algorithms=[ALGORITHM]) does not raise JWTError:
\* the signature verifies and the exp claim is not in the past
JwtDecodes(token, key) ==
  /\ token.sig = HS256(key, token.sub, token.email, token.exp)
  /\ ~(token.exp < now)

\* verify_token: the token data, or user_id 0 when it raises 401
NoTokenData == [user_id |-> 0, email |-> <<>>]

verify_token(token) ==
  IF JwtDecodes(token, SECRET_KEY) /\ token.sub # <<>>
  THEN [user_id |-> StrToInt(token.sub), email |-> token.email]
  ELSE NoTokenData

\* get_current_user: the id of the user row, or 0 when it raises 401
get_current_user(token) ==
  LET token_data == verify_token(token)
  IN  IF token_data = NoTokenData THEN 0 ELSE UserById(token_data.user_id)

\* The access tokens issued so far
Issued ==
  UNION {{sessions[t][i].jwt : i \in 1..Len(sessions[t])} : t \in 1..Len(sessions)}

\* What a client may present as a bearer credential: an access token it was
\* issued, one of those with a claim changed and the signature kept, or one
\* signed with a key of its own.
Presentable ==
  Issued
  \cup {[j EXCEPT !.sub = IntToStr(u)] : j \in Issued, u \in 1..(Len(users) + 1)}
  \cup {[j EXCEPT !.exp = j.exp + AccessTokenLifetime] : j \in Issued}
  \cup {JwtEncode(j.sub, j.email, j.exp, OtherKey) : j \in Issued}

\* ----------------------------------------------------------- request slots
NoUserView == [id |-> 0, email |-> <<>>]

\* A slot with no request in flight.  A request in flight keeps its
\* arguments and locals: email or tok (the argument), row (the row its
\* query returned), and, as history, qused (whether the token sent was
\* consumed when it was queried) and ctime (the clock its expiry check read).
Idle ==
  [op |-> "none", pc |-> "done", email |-> <<>>, tok |-> 0, row |-> 0,
   qused |-> FALSE, ctime |-> 0]

Done(p) == req[p].pc = "done"

\* A new request takes the first free slot: the slots are the anonymous
\* workers of one pool.
FreeSlot(p) == Done(p) /\ \A q \in Procs : q < p => ~Done(q)

\* Requests of request_magic_link that have yet to insert their token row
Inserting ==
  {p \in Procs : req[p].op = "request" /\ req[p].pc \in {"adduser", "addtoken"}}

\* A response of the authentication engine: the request it answers (r, the
\* slot as it was), the status, the detail or message, and the body of
\* verify_magic_link.  Of a response of a protected handler out keeps the
\* handler (op), the status and the detail; the whole response is what the
\* handler's result operator gives.
Response(r, status, detail) ==
  [op |-> r.op, email |-> r.email, tok |-> r.tok, row |-> r.row,
   qused |-> r.qused, ctime |-> r.ctime,
   status |-> status, detail |-> detail,
   access_token |-> NoJwt, user |-> NoUserView]

NoResponse == Response(Idle, 0, "")

\* ------------------------------------------------- request_magic_link
\* email = request.email.lower().strip(); db.query(User).filter(...).first()
RequestLookup(p, raw, maxTokens) ==
  /\ FreeSlot(p)
  /\ Len(tokens) + Cardinality(Inserting) < maxTokens
  /\ LET email == NormalizeEmail(raw)
         user  == UserByEmail(email)
     IN  req' = [req EXCEPT ![p] =
                   [Idle EXCEPT !.op = "request", !.email = raw, !.row = user,
                                !.pc = IF user = 0 THEN "adduser" ELSE "addtoken"]]
  /\ UNCHANGED <<now, users, tokens, weights, out, sessions, linkFor>>

\* The insert into a column email that is not unique
RequestAddUserUnchecked(p) ==
  /\ req[p].op = "request" /\ req[p].pc = "adduser"
  /\ users' = Append(users, [id |-> Len(users) + 1,
                              email |-> NormalizeEmail(req[p].email)])
  /\ req' = [req EXCEPT ![p].row = Len(users) + 1, ![p].pc = "addtoken"]
  /\ UNCHANGED <<now, tokens, weights, out, sessions, linkFor>>

\* user = User(email=email); db.add(user); db.commit(); db.refresh(user).
\* The column is unique: the commit raises when another request has
\* inserted the email in between, and no handler catches it.
RequestAddUser(p) ==
  /\ req[p].op = "request" /\ req[p].pc = "adduser"
  /\ LET email == NormalizeEmail(req[p].email)
     IN  IF UserByEmail(email) # 0
         THEN /\ out' = Response(req[p], 500, "Internal Server Error")
              /\ req' = [req EXCEPT ![p] = Idle]
              /\ UNCHANGED users
         ELSE /\ users' = Append(users, [id |-> Len(users) + 1, email |-> email])
              /\ req' = [req EXCEPT ![p].row = Len(users) + 1, ![p].pc = "addtoken"]
              /\ UNCHANGED out
  /\ UNCHANGED <<now, tokens, weights, sessions, linkFor>>

\* The handler marking the earlier tokens of the user as used
RequestAddTokenInvalidating(p, delivered) ==
  /\ req[p].op = "request" /\ req[p].pc = "addtoken"
  /\ tokens' = Append([i \in TokenIds |->
                         IF tokens[i].user_id = req[p].row
                         THEN [tokens[i] EXCEPT !.used = TRUE] ELSE tokens[i]],
                 [id |-> Len(tokens) + 1, token |-> Uuid4, user_id |-> req[p].row,
                  expires_at |-> now + MagicLinkLifetime, used |-> FALSE])
  /\ linkFor' = Append(linkFor, [email |-> req[p].email, at |-> now])
  /\ sessions' = Append(sessions, <<>>)
  /\ LET r == [req[p] EXCEPT !.tok = Uuid4]
     IN  out' = IF delivered
                THEN Response(r, 200, "Magic link sent! Check your email.")
                ELSE Response(r, 500, "Internal Server Error")
  /\ req' = [req EXCEPT ![p] = Idle]
  /\ UNCHANGED <<now, users, weights>>

\* The handler with the token row rolled back when the mail fails
RequestAddTokenRolledBack(p, delivered) ==
  /\ req[p].op = "request" /\ req[p].pc = "addtoken"
  /\ IF delivered
     THEN /\ tokens' = Append(tokens,
                         [id |-> Len(tokens) + 1, token |-> Uuid4, user_id |-> req[p].row,
                          expires_at |-> now + MagicLinkLifetime, used |-> FALSE])
          /\ linkFor' = Append(linkFor, [email |-> req[p].email, at |-> now])
          /\ sessions' = Append(sessions, <<>>)
     ELSE UNCHANGED <<tokens, linkFor, sessions>>
  /\ LET r == [req[p] EXCEPT !.tok = Uuid4]
     IN  out' = IF delivered
                THEN Response(r, 200, "Magic link sent! Check your email.")
                ELSE Response(r, 500, "Internal Server Error")
  /\ req' = [req EXCEPT ![p] = Idle]
  /\ UNCHANGED <<now, users, weights>>

\* token = str(uuid.uuid4()); expires_at = utcnow() + timedelta(minutes=...);
\* db.add(MagicLinkToken(...)); db.commit(); send_magic_link_email(email,
\* token), which prints or calls resend.Emails.send; the latter may raise,
\* and no handler catches it.  Then the acknowledgement.  One step: after
\* the commit the handler touches neither the store nor the clock.
RequestAddToken(p, delivered) ==
  /\ req[p].op = "request" /\ req[p].pc = "addtoken"
  /\ tokens' = Append(tokens,
                 [id |-> Len(tokens) + 1, token |-> Uuid4, user_id |-> req[p].row,
                  expires_at |-> now + MagicLinkLifetime, used |-> FALSE])
  /\ linkFor' = Append(linkFor, [email |-> req[p].email, at |-> now])
  /\ sessions' = Append(sessions, <<>>)
  /\ LET r == [req[p] EXCEPT !.tok = Uuid4]
     IN  out' = IF delivered
                THEN Response(r, 200, "Magic link sent! Check your email.")
                ELSE Response(r, 500, "Internal Server Error")
  /\ req' = [req EXCEPT ![p] = Idle]
  /\ UNCHANGED <<now, users, weights>>

\* -------------------------------------------------- verify_magic_link
\* magic_token = db.query(MagicLinkToken).filter(token == tok, used == False)
\* .first(); if not magic_token: raise 400
VerifyQuery(p, tok) ==
  /\ FreeSlot(p)
  /\ LET row == UnusedTokenRow(tok)
         r   == [Idle EXCEPT !.op = "verify", !.tok = tok, !.row = row,
                   !.qused = \E i \in TokenIds : tokens[i].token = tok /\ tokens[i].used]
     IN  IF row = 0
         THEN /\ out' = Response(r, 400, "Invalid or already used token")
              /\ req' = [req EXCEPT ![p] = Idle]
         ELSE /\ req' = [req EXCEPT ![p] = [r EXCEPT !.pc = "check"]]
              /\ UNCHANGED out
  /\ UNCHANGED <<now, users, tokens, weights, sessions, linkFor>>

\* The comparison the wrong way round
IsExpiredReversed(expires_at) == expires_at > now

\* The comparison with the expiry minute counted as expired
IsExpiredAtExpiry(expires_at) == expires_at <= now

\* magic_token.expires_at < datetime.datetime.utcnow()
IsExpired(expires_at) == expires_at < now

\* if magic_token.expires_at < utcnow(): raise 400
VerifyCheck(p) ==
  /\ req[p].op = "verify" /\ req[p].pc = "check"
  /\ LET r == [req[p] EXCEPT !.ctime = now]
     IN  IF IsExpired(tokens[r.row].expires_at)
         THEN /\ out' = Response(r, 400, "Token has expired")
              /\ req' = [req EXCEPT ![p] = Idle]
         ELSE /\ req' = [req EXCEPT ![p] = [r EXCEPT !.pc = "commit"]]
              /\ UNCHANGED out
  /\ UNCHANGED <<now, users, tokens, weights, sessions, linkFor>>

\* magic_token.used = True; db.commit(): UPDATE ... SET used=1 WHERE id = row;
\* user = magic_token.user; access_token = create_access_token(user.id,
\* user.email); return the token and the user view.  One step: after the
\* commit the handler reads only rows that never change, and the clock
\* create_access_token reads is in the minute of the commit.
VerifyCommit(p) ==
  /\ req[p].op = "verify" /\ req[p].pc = "commit"
  /\ tokens' = [tokens EXCEPT ![req[p].row].used = TRUE]
  /\ LET user == users[tokens[req[p].row].user_id]
         jwt  == create_access_token(user.id, user.email)
     IN  /\ sessions' = [sessions EXCEPT ![req[p].row] =
                                Append(@, [jwt |-> jwt, at |-> now])]
         /\ out' = [Response(req[p], 200, "") EXCEPT
                      !.access_token = jwt,
                      !.user = [id |-> user.id, email |-> user.email]]
  /\ req' = [req EXCEPT ![p] = Idle]
  /\ UNCHANGED <<now, users, weights, linkFor>>

\* ------------------------------------------------------------- the clock
Tick(d, horizon) ==
  /\ now + d <= horizon
  /\ now' = now + d
  /\ UNCHANGED <<users, tokens, weights, req, out, sessions, linkFor>>

\* ----------------------------------------------------- protected handlers
\* What a protected handler does with a request, as a function of the
\* request and the store: the response (status, detail or message, the user
\* view of get_me, the entry views of add_weight and get_weights) and the
\* table weights as the handler leaves it.  uid is the user the credential
\* resolved to.
Result(uid, status, detail, entries, store) ==
  [uid |-> uid, status |-> status, detail |-> detail,
   user |-> IF uid = 0 THEN NoUserView
            ELSE [id |-> users[uid].id, email |-> users[uid].email],
   entries |-> entries, store |-> store]

\* The detail of the 401 that verify_token or get_current_user raises
AuthDetail(cred) ==
  IF ~JwtDecodes(cred, SECRET_KEY) THEN "Invalid or expired token"
  ELSE IF cred.sub = <<>> THEN "Invalid token"
  ELSE "User not found"

Unauthenticated(cred) == Result(0, 401, AuthDetail(cred), <<>>, weights)

\* What out keeps of the result r of handler op
Sent(op, r) ==
  [Response([Idle EXCEPT !.op = op], r.status, r.detail) EXCEPT
     !.user = IF op = "me" THEN r.user ELSE NoUserView]

\* GET /auth/me
MeResult(cred) ==
  LET uid == get_current_user(cred)
  IN  IF uid = 0 THEN Unauthenticated(cred)
      ELSE Result(uid, 200, "", <<>>, weights)

\* The handler deleting the entries of the user it resolved
get_me_deleting(cred) ==
  /\ out' = Sent("me", MeResult(cred))
  /\ weights' = {e \in weights : e.user_id # get_current_user(cred)}
  /\ UNCHANGED <<now, users, tokens, req, sessions, linkFor>>

get_me(cred) ==
  /\ out' = Sent("me", MeResult(cred))
  /\ UNCHANGED <<now, users, tokens, weights, req, sessions, linkFor>>

\* --------------------------------------------------------- weight service
\* Optional values: <<>> is None, <<v>> is the value v.  Weights are counted
\* in tenths.  An image is the text pytesseract recognizes in it.
IsDigit(c) == \E d \in 0..9 : DigitChars[d + 1] = c

RECURSIVE DigitRun(_)
\* the longest prefix of s made of digits: \d*
DigitRun(s) ==
  IF s # <<>> /\ IsDigit(Head(s)) THEN <<Head(s)>> \o DigitRun(Tail(s)) ELSE <<>>

RECURSIVE ReSearchNumber(_)
\* re.search(r'(\d+\.?\d*)', text): group 1, or <<>> when there is no match
ReSearchNumber(text) ==
  IF text = <<>> THEN <<>>
  ELSE IF IsDigit(Head(text))
  THEN LET int  == DigitRun(text)
           rest == SubSeq(text, Len(int) + 1, Len(text))
       IN  IF rest # <<>> /\ Head(rest) = "."
           THEN int \o <<".">> \o DigitRun(Tail(rest))
           ELSE int
  ELSE ReSearchNumber(Tail(text))

\* The conversion dropping the decimals
ParseFloatTruncated(s) == 10 * StrToInt(DigitRun(s))

\* float(s) of a match of the pattern, in tenths (the texts carry at most
\* one decimal)
ParseFloat(s) ==
  LET int  == DigitRun(s)
      frac == IF Len(s) > Len(int) + 1 THEN SubSeq(s, Len(int) + 2, Len(s)) ELSE <<>>
  IN  10 * StrToInt(int) + (IF frac = <<>> THEN 0 ELSE DigitValue(frac[1]))

\* What image_to_string may return
OcrTexts ==
  { <<"1", "8", "2", ".", "4", " ", "l", "b", "s">>, <<"l", "b", "s">> }
WeightInputs == {<<>>, <<0>>, <<705>>}
ImageInputs == {<<>>} \cup {<<t>> : t \in OcrTexts}

\* e.timestamp.isoformat()
IsoFormat(t) == IntToStr(t)

RECURSIVE ReplaceZ(_)
\* s.replace('Z', '+00:00')
ReplaceZ(s) ==
  IF s = <<>> THEN <<>>
  ELSE IF Head(s) = "Z" THEN <<"+", "0", "0", ":", "0", "0">> \o ReplaceZ(Tail(s))
  ELSE <<Head(s)>> \o ReplaceZ(Tail(s))

UtcOffset == <<"+", "0", "0", ":", "0", "0">>

\* datetime.datetime.fromisoformat(s) does not raise ValueError
IsIso(s) ==
  LET d == DigitRun(s)
  IN  d # <<>> /\ (Len(d) = Len(s) \/ SubSeq(s, Len(d) + 1, Len(s)) = UtcOffset)

\* datetime.datetime.fromisoformat(s), as the store compares it
FromIso(s) == StrToInt(DigitRun(s))

\* What a client may send as start or end: nothing, a timestamp (the
\* latest with the Z), or something else
FilterTimes == {0, AccessTokenLifetime}
FilterInputs ==
  {<<>>, <<"n", "o", "w">>}
  \cup {IF t = AccessTokenLifetime THEN IsoFormat(t) \o <<"Z">> ELSE IsoFormat(t) :
          t \in FilterTimes}

\* The next id of table weights (SQLite: one more than the largest rowid)
NextEntryId ==
  IF weights = {} THEN 1
  ELSE 1 + (CHOOSE m \in {e.id : e \in weights} : \A e \in weights : e.id <= m)

\* {"id": e.id, "weight": e.weight, "timestamp": e.timestamp.isoformat(),
\*  "method": e.method}
EntryView(e) ==
  [id |-> e.id, weight |-> e.weight, timestamp |-> IsoFormat(e.timestamp),
   method |-> e.method]

\* The test with "is None" in place of "not"
NothingGivenIsNone(weight, image) == weight = <<>> /\ image = <<>>

\* if not weight and not image
NothingGiven(weight, image) == (weight = <<>> \/ weight[1] = 0) /\ image = <<>>

\* POST /weight
AddResult(cred, weight, image) ==
  LET uid == get_current_user(cred)
  IN
  IF uid = 0 THEN Unauthenticated(cred)
  ELSE IF NothingGiven(weight, image)
  THEN Result(uid, 400, "Either weight or image must be provided", <<>>, weights)
  ELSE IF image # <<>> /\ ReSearchNumber(image[1]) = <<>>
  THEN Result(uid, 400, "Could not extract weight from image", <<>>, weights)
  ELSE LET entry ==
             [id |-> NextEntryId,
              weight |-> IF image # <<>> THEN ParseFloat(ReSearchNumber(image[1]))
                         ELSE weight[1],
              timestamp |-> now,
              method |-> IF image # <<>> THEN "ocr" ELSE "manual",
              user_id |-> uid]
       IN  Result(uid, 200, "", <<EntryView(entry)>>, weights \cup {entry})

add_weight(cred, weight, image) ==
  /\ LET r == AddResult(cred, weight, image)
     IN  /\ Cardinality(r.store) <= MaxEntries
         /\ weights' = r.store
         /\ out' = Sent("add", r)
  /\ UNCHANGED <<now, users, tokens, req, sessions, linkFor>>

\* The query without its filter on user_id
SelectedOfAnyone(uid, start, end) ==
  LET start_dt == FromIso(ReplaceZ(start))
      end_dt   == FromIso(ReplaceZ(end))
  IN  {e \in weights :
         /\ start # <<>> => e.timestamp >= start_dt
         /\ end # <<>> => e.timestamp <= end_dt}

\* The query with the bounds exclusive
SelectedStrictly(uid, start, end) ==
  LET start_dt == FromIso(ReplaceZ(start))
      end_dt   == FromIso(ReplaceZ(end))
  IN  {e \in weights :
         /\ e.user_id = uid
         /\ start # <<>> => e.timestamp > start_dt
         /\ end # <<>> => e.timestamp < end_dt}

\* The rows .filter(user_id == uid)[.filter(timestamp >= start)]
\* [.filter(timestamp <= end)] selects; "if start:" skips None and ""
Selected(uid, start, end) ==
  LET start_dt == FromIso(ReplaceZ(start))
      end_dt   == FromIso(ReplaceZ(end))
  IN  {e \in weights :
         /\ e.user_id = uid
         /\ start # <<>> => e.timestamp >= start_dt
         /\ end # <<>> => e.timestamp <= end_dt}

\* .order_by(WeightEntry.timestamp).all(): the rows in an order the store
\* may return them in (rows of one timestamp in any order)
Ordered(rows) ==
  {s \in [1..Cardinality(rows) -> rows] :
     /\ \A i, j \in 1..Cardinality(rows) : i # j => s[i] # s[j]
     /\ \A i, j \in 1..Cardinality(rows) : i < j => s[i].timestamp <= s[j].timestamp}

\* GET /weights: the results it may give
ListResults(cred, start, end) ==
  LET uid == get_current_user(cred)
  IN  IF uid = 0 THEN {Unauthenticated(cred)}
      ELSE IF (start # <<>> /\ ~IsIso(ReplaceZ(start))) \/ (end # <<>> /\ ~IsIso(ReplaceZ(end)))
      THEN {Result(uid, 500, "Internal Server Error", <<>>, weights)}
      ELSE {Result(uid, 200, "", [i \in 1..Len(s) |-> EntryView(s[i])], weights) :
            s \in Ordered(Selected(uid, start, end))}

get_weights(cred, start, end) ==
  /\ \E r \in ListResults(cred, start, end) : out' = Sent("list", r)
  /\ UNCHANGED <<now, users, tokens, weights, req, sessions, linkFor>>

\* The query without its filter on user_id
OwnEntryOfAnyone(uid, entry_id) == {e \in weights : e.id = entry_id}

\* db.query(WeightEntry).filter(id == entry_id, user_id == uid).first()
OwnEntry(uid, entry_id) == {e \in weights : e.id = entry_id /\ e.user_id = uid}

\* DELETE /weight/{entry_id}
DeleteResult(cred, entry_id) ==
  LET uid == get_current_user(cred)
  IN
  IF uid = 0 THEN Unauthenticated(cred)
  ELSE IF OwnEntry(uid, entry_id) = {}
  THEN Result(uid, 404, "Weight entry not found", <<>>, weights)
  ELSE Result(uid, 200, "Weight entry deleted successfully", <<>>,
              weights \ OwnEntry(uid, entry_id))

delete_weight(cred, entry_id) ==
  /\ LET r == DeleteResult(cred, entry_id)
     IN  /\ weights' = r.store
         /\ out' = Sent("delete", r)
  /\ UNCHANGED <<now, users, tokens, req, sessions, linkFor>>

\* The entry ids a client may send
EntryIds == 1..MaxEntries

\* ------------------------------------------------------- specifications
Init ==
  /\ now = 0
  /\ users = <<>>
  /\ tokens = <<>>
  /\ weights = {}
  /\ req = [p \in Procs |-> Idle]
  /\ out = NoResponse
  /\ sessions = <<>>
  /\ linkFor = <<>>

\* The authentication engine, its requests interleaved
Next ==
  \/ \E p \in Procs, raw \in RawEmails : RequestLookup(p, raw, MaxTokens)
  \/ \E p \in Procs : RequestAddUser(p)
  \/ \E p \in Procs, delivered \in BOOLEAN : RequestAddToken(p, delivered)
  \/ \E p \in Procs, tok \in TokenStrings : VerifyQuery(p, tok)
  \/ \E p \in Procs : VerifyCheck(p)
  \/ \E p \in Procs : VerifyCommit(p)
  \/ \E d \in LinkTickSteps : Tick(d, LinkHorizon)

Spec == Init /\ [][Next]_vars

\* The authentication engine while resend.Emails.send raises on every call
NotifyNext ==
  \/ \E p \in Procs, raw \in RawEmails : RequestLookup(p, raw, MaxTokens)
  \/ \E p \in Procs : RequestAddUser(p)
  \/ \E p \in Procs : RequestAddToken(p, FALSE)
  \/ \E p \in Procs, tok \in TokenStrings : VerifyQuery(p, tok)
  \/ \E p \in Procs : VerifyCheck(p)
  \/ \E p \in Procs : VerifyCommit(p)
  \/ \E d \in LinkTickSteps : Tick(d, LinkHorizon)

NotifySpec == Init /\ [][NotifyNext]_vars

\* The requests for a link, interleaved
RaceNext ==
  \/ \E p \in Procs, raw \in RawEmails : RequestLookup(p, raw, MaxRaceTokens)
  \/ \E p \in Procs : RequestAddUser(p)
  \/ \E p \in Procs, delivered \in BOOLEAN : RequestAddToken(p, delivered)

RaceSpec == Init /\ [][RaceNext]_vars

\* No other request is in flight
Alone(p) == \A q \in Procs : q # p => Done(q)

\* The authentication engine, its requests one after the other, and the
\* clients presenting their credentials
SeqNext ==
  \/ \E p \in Procs, raw \in RawEmails : Alone(p) /\ RequestLookup(p, raw, MaxSeqTokens)
  \/ \E p \in Procs : Alone(p) /\ RequestAddUser(p)
  \/ \E p \in Procs, delivered \in BOOLEAN : Alone(p) /\ RequestAddToken(p, delivered)
  \/ \E p \in Procs, tok \in TokenStrings : Alone(p) /\ VerifyQuery(p, tok)
  \/ \E p \in Procs : Alone(p) /\ VerifyCheck(p)
  \/ \E p \in Procs : Alone(p) /\ VerifyCommit(p)
  \/ \E cred \in Presentable : get_me(cred)
  \/ \E d \in LinkTickSteps : Tick(d, LinkHorizon)

SeqSpec == Init /\ [][SeqNext]_vars

\* The weight service, from the state in which two users have requested a
\* link each and redeemed it at once
WeightInit ==
  /\ now = 0
  /\ users = << [id |-> 1, email |-> <<"a", "@", "x">>],
                [id |-> 2, email |-> <<"b", "@", "x">>] >>
  /\ tokens = [i \in 1..2 |->
                 [id |-> i, token |-> i, user_id |-> i,
                  expires_at |-> now + MagicLinkLifetime, used |-> TRUE]]
  /\ sessions = [i \in 1..2 |->
                   <<[jwt |-> create_access_token(users[i].id, users[i].email),
                      at |-> now]>>]
  /\ linkFor = << [email |-> <<" ", "A", "@", "X", " ">>, at |-> now],
                  [email |-> <<"b", "@", "x">>, at |-> now] >>
  /\ weights = {}
  /\ req = [p \in Procs |-> Idle]
  /\ out = NoResponse

\* The clients send their requests with the access token they were issued,
\* and a request to get_me with every other credential.  What the handlers do
\* with the requests not drawn here is checked on their result operators.
WeightNext ==
  \/ \E cred \in Presentable : get_me(cred)
  \/ \E cred \in Issued, weight \in WeightInputs, image \in ImageInputs :
       add_weight(cred, weight, image)
  \/ \E cred \in Issued, start \in FilterInputs : \E end \in {<<>>, start} :
       get_weights(cred, start, end)
  \/ \E cred \in Issued, entry_id \in EntryIds : delete_weight(cred, entry_id)
  \/ \E d \in SessionTickSteps : Tick(d, SessionHorizon)

WeightSpec == WeightInit /\ [][WeightNext]_vars

\* The clients add and delete entries
SubmitNext ==
  \/ \E cred \in Issued, weight \in WeightInputs, image \in ImageInputs :
       add_weight(cred, weight, image)
  \/ \E cred \in Issued, entry_id \in EntryIds : delete_weight(cred, entry_id)
  \/ \E d \in SessionTickSteps : Tick(d, SessionHorizon)

SubmitSpec == WeightInit /\ [][SubmitNext]_vars

\* ------------------------------------------------------------------ claims
\* The row of magic_link_tokens that holds the token string tok, or 0
TokenRow(tok) ==
  IF \E i \in TokenIds : tokens[i].token = tok
  THEN CHOOSE i \in TokenIds : tokens[i].token = tok
  ELSE 0

InvalidToken(r) == r.status = 400 /\ r.detail = "Invalid or already used token"
ExpiredToken(r) == r.status = 400 /\ r.detail = "Token has expired"
\* out answers a verify_magic_link request for a token that exists
RedeemAnswered == out.op = "verify" /\ TokenRow(out.tok) # 0

\* C1: however two verify_magic_link requests for one token interleave, at
\* most one access token is issued from any magic link.
C1_OneCredentialPerToken == \A t \in 1..Len(sessions) : Len(sessions[t]) <= 1

\* C2: with the requests one after the other, a magic link yields at most one
\* access token, its row is marked used exactly when it has yielded one, the
\* redemption of a link not redeemed before succeeds when its expiry check
\* runs no later than expires_at, and the redemption of a link redeemed
\* before fails with "Invalid or already used token", whatever the time.
C2_RedeemedOnce ==
  /\ \A t \in TokenIds : Len(sessions[t]) <= 1 /\ (tokens[t].used <=> Len(sessions[t]) = 1)
  /\ RedeemAnswered =>
       LET t == TokenRow(out.tok)
       IN  /\ out.qused => InvalidToken(out)
           /\ (~out.qused /\ out.ctime <= tokens[t].expires_at) => out.status = 200
           /\ out.status = 200 => out.access_token = sessions[t][1].jwt

\* A second redemption has failed, after the expiry of the link
C2_Witness ==
  /\ RedeemAnswered /\ out.qused /\ InvalidToken(out)
  /\ Len(sessions[TokenRow(out.tok)]) = 1
  /\ now > tokens[TokenRow(out.tok)].expires_at

\* The step in which request p runs its expiry check
CheckStep(p) == req[p].op = "verify" /\ req[p].pc = "check" /\ req'[p] # req[p]

\* C3: when the expiry check of a verify_magic_link request, which found its
\* token unconsumed, reads a clock past expires_at, the request is answered
\* "Token has expired", and it neither marks the row used nor issues an
\* access token.
C3_ExpiredIsRefused ==
  [][\A p \in Procs :
       (CheckStep(p) /\ now > tokens[req[p].row].expires_at) =>
         /\ out'.op = "verify" /\ out'.tok = req[p].tok /\ ExpiredToken(out')
         /\ out'.access_token = NoJwt
         /\ tokens' = tokens
         /\ sessions' = sessions]_vars

\* A request was answered "Token has expired" and its token is unconsumed
C3_Witness ==
  /\ RedeemAnswered /\ ExpiredToken(out)
  /\ out.ctime > tokens[out.row].expires_at
  /\ ~tokens[out.row].used /\ sessions[out.row] = <<>>

\* C4: a verify_magic_link request for a token that exists succeeds exactly
\* when the token was unconsumed as the request queried it and the clock its
\* expiry check read was no later than expires_at; and expires_at is the
\* time of the request_magic_link plus MAGIC_LINK_EXPIRE_MINUTES.
C4_RedeemableIff ==
  /\ \A t \in TokenIds : tokens[t].expires_at = linkFor[t].at + MAGIC_LINK_EXPIRE_MINUTES
  /\ RedeemAnswered =>
       (out.status = 200 <=>
          (~out.qused /\ out.ctime <= tokens[TokenRow(out.tok)].expires_at))

\* A redemption whose expiry check ran in the minute of expires_at succeeded
C4_Witness ==
  /\ RedeemAnswered /\ out.status = 200
  /\ out.ctime = tokens[out.row].expires_at

\* The normalized form of the emails of RawEmails, as the spec gives it
Normal(raw) ==
  IF raw \in {<<"a", "@", "x">>, <<" ", "A", "@", "X", " ">>}
  THEN <<"a", "@", "x">>
  ELSE <<"b", "@", "x">>

\* The access tokens issued, each with the row of the magic link it came from
Logins ==
  UNION {{[jwt |-> sessions[t][i].jwt, at |-> sessions[t][i].at, link |-> t] :
            i \in 1..Len(sessions[t])} : t \in 1..Len(sessions)}

\* C5: the access token issued for a magic link that was requested for email e
\* makes get_me answer 200 with the user whose email is e normalized, who is
\* the owner of the link, and no other user has that email.
C5_AuthenticatesAsOwner ==
  \A s \in Logins :
    LET r == MeResult(s.jwt)
        e == Normal(linkFor[s.link].email)
    IN  /\ now <= s.jwt.exp => r.status = 200
        /\ r.status = 200 =>
             /\ r.user.email = e
             /\ r.user.id = tokens[s.link].user_id
             /\ users[r.user.id].email = e
             /\ \A u \in UserIds : u # r.user.id => users[u].email # e

\* get_me has answered with the user of a link requested as " A@X ", and
\* there is another user
C5_Witness ==
  /\ out.op = "me" /\ out.status = 200 /\ out.user.email = <<"a", "@", "x">>
  /\ \E s \in Logins : linkFor[s.link].email = <<" ", "A", "@", "X", " ">>
  /\ \E s \in Logins : Normal(linkFor[s.link].email) = <<"b", "@", "x">>

\* The signature of cred verifies under SECRET_KEY, the clock is not past its
\* exp, and its sub names a user
ValidCredential(cred) ==
  /\ cred.sig = HS256(SECRET_KEY, cred.sub, cred.email, cred.exp)
  /\ now <= cred.exp
  /\ \E u \in UserIds : cred.sub = IntToStr(u)

\* The result r is the 401 of a request that changed nothing
Refused(r) == r.status = 401 /\ r.uid = 0 /\ r.entries = <<>> /\ r.store = weights

\* C6: a credential makes get_current_user resolve a user exactly when its
\* signature verifies under SECRET_KEY, the clock is not past its exp and its
\* sub names a user; the exp of an access token is its time of issue plus
\* ACCESS_TOKEN_EXPIRE_DAYS; and with any other credential get_me,
\* add_weight, get_weights and delete_weight answer 401 and leave the table
\* weights as it is.
C6_AuthenticateIff ==
  /\ \A s \in Logins : s.jwt.exp = s.at + ACCESS_TOKEN_EXPIRE_DAYS * 24 * 60
  /\ \A cred \in Presentable :
       /\ get_current_user(cred) # 0 <=> ValidCredential(cred)
       /\ MeResult(cred).status = 200 <=> ValidCredential(cred)
       /\ ~ValidCredential(cred) =>
            /\ Refused(MeResult(cred))
            /\ \A weight \in WeightInputs, image \in ImageInputs :
                 Refused(AddResult(cred, weight, image))
            /\ \A start \in FilterInputs, end \in FilterInputs :
                 \A r \in ListResults(cred, start, end) : Refused(r)
            /\ \A entry_id \in 1..(MaxEntries + 1) : Refused(DeleteResult(cred, entry_id))

\* get_me has answered 401, the access tokens issued have expired, and there
\* are entries
C6_Witness ==
  /\ out.op = "me" /\ out.status = 401
  /\ \A s \in Logins : now > s.jwt.exp
  /\ weights # {}

\* C7: get_weights, called with the access token of a user and any filters,
\* returns only entries of table weights whose user_id is that user.
C7_ListOnlyOwn ==
  \A s \in Logins, start \in FilterInputs, end \in FilterInputs :
    \A r \in ListResults(s.jwt, start, end) :
      \A k \in 1..Len(r.entries) :
        /\ \E e \in weights : e.id = r.entries[k].id
        /\ \A e \in weights :
             e.id = r.entries[k].id => e.user_id = tokens[s.link].user_id

\* get_weights has answered 200 while both users have entries
C7_Witness ==
  /\ out.op = "list" /\ out.status = 200
  /\ \E e1, e2 \in weights : e1.user_id # e2.user_id

\* What the caller sees of a result
Seen(r) == [status |-> r.status, detail |-> r.detail, entries |-> r.entries]

\* C8: delete_weight, called with the unexpired access token of user U and
\* an id, removes exactly the entry of that id when U owns it; otherwise it
\* answers 404 as it does for an id not in use, and table weights is as it
\* was.
C8_DeleteOnlyOwn ==
  /\ \A e1, e2 \in weights : e1.id = e2.id => e1 = e2
  /\ \A s \in Logins, entry_id \in 1..(MaxEntries + 1) :
       now <= s.jwt.exp =>
         LET r    == DeleteResult(s.jwt, entry_id)
             mine == {e \in weights :
                        e.id = entry_id /\ e.user_id = tokens[s.link].user_id}
         IN  IF mine # {}
             THEN r.status = 200 /\ r.store = weights \ mine
             ELSE /\ r.status = 404 /\ r.store = weights
                  /\ Seen(r) = Seen(DeleteResult(s.jwt, NextEntryId))

\* delete_weight has answered 404 while every id a client sends is in use
C8_Witness ==
  /\ out.op = "delete" /\ out.status = 404
  /\ \A entry_id \in EntryIds : \E e \in weights : e.id = entry_id
  /\ \E e1, e2 \in weights : e1.user_id # e2.user_id

InvalidInput(r) ==
  r.status = 400 /\ r.detail = "Either weight or image must be provided"

\* C9: add_weight, called with an unexpired access token, answers 400
\* "Either weight or image must be provided" both when a weight and an image
\* are given and when neither is, and adds no entry.
C9_BothOrNeitherRefused ==
  \A s \in Logins, weight \in WeightInputs, image \in ImageInputs :
    (now <= s.jwt.exp /\ ((weight = <<>>) <=> (image = <<>>))) =>
       LET r == AddResult(s.jwt, weight, image)
       IN  InvalidInput(r) /\ r.store = weights

\* An optional timestamp t (<<>> for none) as a client sends it
Sends(t, z) ==
  IF t = <<>> THEN <<>> ELSE IF z THEN IsoFormat(t[1]) \o <<"Z">> ELSE IsoFormat(t[1])

OptionalTimes == {<<>>} \cup {<<t>> : t \in FilterTimes}

\* C10: get_weights, called with the unexpired access token of user U, start
\* T1 and end T2 (either may be left out), answers 200 with the views of
\* exactly U's entries with T1 <= timestamp <= T2, each once, in ascending
\* order of timestamp.
C10_ListRange ==
  \A s \in Logins, t1 \in OptionalTimes, t2 \in OptionalTimes, z \in BOOLEAN :
    now <= s.jwt.exp =>
      LET want == {e \in weights :
                     /\ e.user_id = tokens[s.link].user_id
                     /\ t1 # <<>> => t1[1] <= e.timestamp
                     /\ t2 # <<>> => e.timestamp <= t2[1]}
      IN  \A r \in ListResults(s.jwt, Sends(t1, z), Sends(t2, z)) :
            /\ r.status = 200
            /\ Len(r.entries) = Cardinality(want)
            /\ {r.entries[k] : k \in 1..Len(r.entries)} = {EntryView(e) : e \in want}
            /\ \A i \in 1..(Len(r.entries) - 1) :
                 \E e1, e2 \in want :
                   /\ e1.id = r.entries[i].id /\ e2.id = r.entries[i + 1].id
                   /\ e1.timestamp <= e2.timestamp

\* get_weights has answered 200 while a user has entries of two timestamps
C10_Witness ==
  /\ out.op = "list" /\ out.status = 200
  /\ \E e1, e2 \in weights : e1.user_id = e2.user_id /\ e1.timestamp < e2.timestamp

Acknowledged(r) ==
  r.status = 200 /\ r.detail = "Magic link sent! Check your email."

\* out answers a request_magic_link request that got as far as sending the
\* mail
LinkAnswered == out.op = "request" /\ out.tok # 0

\* C11: request_magic_link answers 200 "Magic link sent! Check your email."
\* whenever it has stored the token, whether the email was known or not and
\* whether or not the mail could be sent.
C11_AlwaysAcknowledged == LinkAnswered => Acknowledged(out)

\* C12: while every send of the mail fails, each request_magic_link that
\* gets as far as sending answers 500 and yet leaves its token row in
\* magic_link_tokens, with its expiry of MAGIC_LINK_EXPIRE_MINUTES, and
\* verify_magic_link of such a token succeeds exactly when the token was
\* unconsumed at its query and the clock of its expiry check was not past
\* expires_at.
C12_UndeliveredIsRedeemable ==
  /\ \A t \in TokenIds :
       /\ tokens[t].token = t
       /\ tokens[t].expires_at = linkFor[t].at + MAGIC_LINK_EXPIRE_MINUTES
       /\ ~tokens[t].used => sessions[t] = <<>>
  /\ LinkAnswered =>
       /\ out.status = 500
       /\ TokenRow(out.tok) # 0
  /\ RedeemAnswered =>
       (out.status = 200 <=>
          (~out.qused /\ out.ctime <= tokens[TokenRow(out.tok)].expires_at))

\* The token of a request whose mail failed has been redeemed, after the
\* minute it was issued in
C12_Witness ==
  /\ RedeemAnswered /\ out.status = 200
  /\ tokens[out.row].used
  /\ out.ctime > linkFor[out.row].at

\* C13: a token that is unconsumed while the clock is past its expires_at
\* is unconsumed after every step.
C13_ExpiredIsTerminal ==
  [][\A t \in TokenIds :
       (now > tokens[t].expires_at /\ ~tokens[t].used) => ~tokens'[t].used]_vars

\* A step of request_magic_link that sent, or tried to send, the mail
LinkStep == out' # out /\ out'.op = "request" /\ out'.tok # 0

\* C14: a step of request_magic_link that stores a token appends exactly
\* one row, unconsumed and owned by the user of the email requested, and
\* changes no other row; no step changes the token string, owner or expiry
\* of a row, and only the successful verify_magic_link of a row changes its
\* flag used; and verify_magic_link of a token succeeds exactly when that
\* token was unconsumed at its query and the clock of its expiry check was
\* not past its expires_at, whatever other tokens its user holds.
C14_RequestKeepsTokens ==
  [][/\ \A t \in TokenIds :
          /\ tokens'[t].token = tokens[t].token
          /\ tokens'[t].user_id = tokens[t].user_id
          /\ tokens'[t].expires_at = tokens[t].expires_at
          /\ tokens'[t].used # tokens[t].used =>
                out'.op = "verify" /\ out'.row = t /\ out'.status = 200
     /\ LinkStep <=> Len(tokens') # Len(tokens)
     /\ LinkStep =>
          /\ Len(tokens') = Len(tokens) + 1
          /\ ~tokens'[Len(tokens')].used
          /\ tokens'[Len(tokens')].token = out'.tok
          /\ users[tokens'[Len(tokens')].user_id].email = Normal(out'.email)
     /\ (out' # out /\ out'.op = "verify" /\ out'.row # 0) =>
          /\ out'.status = 200 <=>
                (~out'.qused /\ out'.ctime <= tokens[out'.row].expires_at)
          /\ out'.status = 200 => ~tokens[out'.row].used /\ tokens'[out'.row].used
    ]_vars

\* Two tokens of one user, both issued before either was redeemed, have
\* both been redeemed
C14_Witness ==
  /\ Len(tokens) = 2
  /\ tokens[1].user_id = tokens[2].user_id
  /\ \A t \in {1, 2} :
       /\ tokens[t].used /\ Len(sessions[t]) = 1
       /\ \A u \in {1, 2} : sessions[t][1].at >= linkFor[u].at
  /\ sessions[1][1].at > sessions[2][1].at

\* C15: a step of get_me leaves the tables users, magic_link_tokens and
\* weights as they are, whether it answers 200 or 401.
C15_AuthenticateWritesNothing ==
  [][(out' # out /\ out'.op = "me") =>
       /\ out'.status \in {200, 401}
       /\ users' = users /\ tokens' = tokens /\ weights' = weights]_vars

\* get_me has answered 200 while both users have entries
C15_Witness ==
  /\ out.op = "me" /\ out.status = 200
  /\ \A u \in UserIds : \E e \in weights : e.user_id = u

\* C16: get_weights, called with an unexpired access token and a start or
\* an end that is no timestamp, answers with a status of the 400 class and
\* no entries.
C16_MalformedFilterRefused ==
  \A s \in Logins, other \in FilterInputs :
    now <= s.jwt.exp =>
      \A r \in ListResults(s.jwt, <<"n", "o", "w">>, other)
                \cup ListResults(s.jwt, other, <<"n", "o", "w">>) :
        r.status \in 400..499 /\ r.entries = <<>>

\* What the Extractor recognizes in the texts of OcrTexts, in tenths
Recognized(text) ==
  IF text = <<"1", "8", "2", ".", "4", " ", "l", "b", "s">> THEN <<1824>> ELSE <<>>

ExtractionFailed(r) ==
  r.status = 400 /\ r.detail = "Could not extract weight from image"

\* C17: add_weight, called with the unexpired access token of user U,
\* answers 200 only by adding exactly one row to weights, of a new id,
\* owned by U, with method 'ocr' and the number recognized when an image was
\* given and method 'manual' and the weight given otherwise, and returns its
\* view; with an image in which no number is recognized it answers 400
\* "Could not extract weight from image"; and whenever it does not answer
\* 200 weights is as it was.
C17_SubmitAddsOne ==
  \A s \in Logins, weight \in WeightInputs, image \in ImageInputs :
    now <= s.jwt.exp =>
      LET r == AddResult(s.jwt, weight, image)
      IN  /\ r.status = 200 =>
               \E e \in r.store :
                 /\ r.store = weights \cup {e}
                 /\ \A w \in weights : w.id # e.id
                 /\ e.user_id = tokens[s.link].user_id
                 /\ e.timestamp = now
                 /\ IF image # <<>>
                    THEN e.method = "ocr" /\ <<e.weight>> = Recognized(image[1])
                    ELSE e.method = "manual" /\ <<e.weight>> = weight
                 /\ r.entries = <<EntryView(e)>>
          /\ (image # <<>> /\ Recognized(image[1]) = <<>>) => ExtractionFailed(r)
          /\ (image # <<>> /\ Recognized(image[1]) # <<>>) => r.status = 200
          /\ r.status # 200 => r.store = weights

\* add_weight has answered 200 and a user has an entry read from an image
\* while the other user has an entry too
C17_Witness ==
  /\ out.op = "add" /\ out.status = 200
  /\ \E e1, e2 \in weights :
       e1.method = "ocr" /\ e1.weight = 1824 /\ e2.user_id # e1.user_id

\* Weights a client may send beside those of WeightInputs, in tenths
NonZeroWeights == {<<705>>, <<1>>, <<-5>>}

\* C18: add_weight, called with an unexpired access token, weight 0 and no
\* image, answers 400 "Either weight or image must be provided" and adds
\* nothing, as it does with no weight at all; with a weight other than 0 and
\* no image it answers 200 and adds the entry.
C18_ZeroIsNothing ==
  \A s \in Logins :
    now <= s.jwt.exp =>
      /\ LET r == AddResult(s.jwt, <<0>>, <<>>)
         IN  /\ InvalidInput(r) /\ r.store = weights
             /\ Seen(r) = Seen(AddResult(s.jwt, <<>>, <<>>))
      /\ \A weight \in NonZeroWeights :
           LET r == AddResult(s.jwt, weight, <<>>)
           IN  /\ r.status = 200
               /\ \E e \in r.store \ weights :
                    e.weight = weight[1] /\ e.method = "manual"

\* add_weight has answered 400 for want of a weight while an entry typed
\* in exists
C18_Witness ==
  /\ out.op = "add" /\ InvalidInput(out)
  /\ \E e \in weights : e.method = "manual" /\ e.weight = 705

\* C19: no two rows of users have the same email, every email of users is
\* the normalized form of an email requested, and the row of every token
\* names the one user whose email is the normalized form of the email the
\* token was requested for, however the requests interleave.
C19_OneUserPerEmail ==
  /\ \A u1, u2 \in UserIds : users[u1].email = users[u2].email => u1 = u2
  /\ \A u \in UserIds :
       users[u].id = u /\ \E raw \in RawEmails : users[u].email = Normal(raw)
  /\ \A t \in TokenIds :
       /\ tokens[t].user_id \in UserIds
       /\ users[tokens[t].user_id].email = Normal(linkFor[t].email)

\* A request for " A@X " has lost the insert of the user to a concurrent
\* request for "a@x", which has stored its token
C19_Witness ==
  /\ out.op = "request" /\ out.status = 500 /\ out.tok = 0
  /\ out.email = <<" ", "A", "@", "X", " ">>
  /\ Len(users) = 1 /\ users[1].email = <<"a", "@", "x">>
  /\ \E t \in TokenIds : linkFor[t].email = <<"a", "@", "x">>

\* C20: verify_magic_link of a token that was consumed when it was queried
\* answers "Invalid or already used token", also past the expiry of the
\* token; it answers "Token has expired" only for a token that exists, was
\* unconsumed at the query and stays unconsumed, its expiry check having
\* read a clock past expires_at.
C20_ConsumedBeforeExpired ==
  /\ (out.op = "verify" /\ ExpiredToken(out)) => TokenRow(out.tok) # 0
  /\ RedeemAnswered =>
       LET t == TokenRow(out.tok)
       IN  /\ out.qused => InvalidToken(out)
           /\ ExpiredToken(out) =>
                /\ ~out.qused /\ ~tokens[t].used
                /\ out.ctime > tokens[t].expires_at

\* A token redeemed in the minute of its expiry has been refused as used
\* after that minute
C20_Witness ==
  /\ RedeemAnswered /\ InvalidToken(out) /\ out.qused
  /\ LET t == TokenRow(out.tok)
     IN  /\ tokens[t].used
         /\ sessions[t][1].at = tokens[t].expires_at
         /\ now > tokens[t].expires_at

====
